---- MODULE Spec2Model ----
(***************************************************************************)
(* Model of the trading core of robinhood-trading-system:                  *)
(*   src/robinhood-trading-system/src/risk_management.py  (RiskManager)    *)
(*   src/robinhood-trading-system/src/backtester.py       (BacktestEngine) *)
(*                                                                         *)
(* Money is counted in whole dollars and time in whole calendar days.      *)
(* Python's int() on a non-negative quotient is the integer division \div. *)
(***************************************************************************)
EXTENDS Integers, Sequences, FiniteSets, TLC

(***************************************************************************)
(* Bounds of the model.                                                    *)
(***************************************************************************)
MaxAdds == 3
MaxSizingAdds == 2
MaxRoundTrips == 4
MaxDay == 7
MaxCurve == 2
BTEndDay == 4
MaxRuns == 3
MaxDates == 9
MaxWindow == 3
LongEndDay == 32

(***************************************************************************)
(* Program constants (RiskManager.__init__ and _load_config defaults).     *)
(***************************************************************************)
initial_balance == 10000
max_position_pct == 10
reserve_cash_pct == 20
max_position_risk == 2
max_daily_loss == 100
max_consecutive_losses == 3
pdt_limit == 3
account_minimum == 25000
base_signal == 60
max_signal == 100
min_position_value == 100
max_drawdown_pct == 20
pdt_window_days == 7

(***************************************************************************)
(* Program constants (BacktestEngine.__init__ and _update_positions).      *)
(* Rates are in percent: position_size_pct 0.1, max_position_risk 0.02.    *)
(***************************************************************************)
initial_capital == 10000
position_size_pct == 10
bt_max_position_risk == 2
min_trade_size == 100
max_holding_days == 30
\* MomentumScanner: _load_config defaults; volume_multiplier 1.5 and
\* price_change_min 2.0 are in tenths
momentum_min_signal_strength == 65
rsi_range_low == 50
rsi_range_high == 80
volume_multiplier == 15
price_change_min == 20
\* MeanReversionScanner: _load_config defaults; zscore_threshold -2.0 is in
\* tenths, bollinger_position 0.1 in hundredths
mean_reversion_min_signal_strength == 60
rsi_oversold == 30
zscore_threshold == -20
bollinger_position == 10
stochastic_oversold == 20
\* both scanners: the fewest bars a symbol is analysed with
min_bars == 50

(***************************************************************************)
(* Input domains.                                                          *)
(***************************************************************************)
Symbols == {"AAPL", "TSLA"}
NoSymbol == "none"
PositionTypes == {"long", "short"}
EntryPrices == {100}
Quantities == {0, 50}
LargeQuantities == {50, 75}
ExitPrices == {99, 101}
MarkPrices == {50}
Stops == {95}
Targets == {110}
MarketData == [Symbols -> MarkPrices]
AdvanceDays == {6, 7}
\* account.initial_balance of the configuration file
ConfiguredBalances == {initial_balance, account_minimum}
\* (signal_strength, entry_price, stop_loss) of the sizing calls
Signals == {<<100, 100, 95>>}
WideStrengths == {50, 60, 80, 100}
WideEntries == {0, 10, 100}
WideStops == {5, 50, 95, 100, 105}
WideSignals == WideStrengths \X WideEntries \X WideStops

\* Backtest inputs: OHLC bars, price series over the weekdays of the data
\* (day 0 is a Thursday), signal lists, commissions and windows.
Bar(o, h, l, c) == [Open |-> o, High |-> h, Low |-> l, Close |-> c]
FlatBar == Bar(100, 100, 100, 100)
BarKinds == {FlatBar, Bar(100, 110, 100, 110), Bar(100, 100, 90, 90)}
DataDays == {d \in 0..(BTEndDay + 1) : (d + 3) % 7 < 5}
AaplSeries ==
    {a \in UNION {[D -> BarKinds] : D \in SUBSET DataDays} :
        0 \in DOMAIN a /\ a[0] = FlatBar}
FlatSeries == [d \in DataDays |-> FlatBar]
PriceData ==
    {("AAPL" :> a) : a \in AaplSeries}
        \cup {("AAPL" :> a) @@ ("TSLA" :> FlatSeries) : a \in AaplSeries}
SignalPool ==
    [date : {0, 1, BTEndDay}, symbol : Symbols, strength : {100},
     stop_loss : Stops, target : Targets]
SignalLists ==
    {<<a>> : a \in SignalPool} \cup {<<a, b>> : a, b \in SignalPool}
Commissions == {0, 5}
\* Backtest inputs of SpecBacktest: one symbol whose bars open at 96 + day
\* and are quiet (flat at the open), a rally (close 112, above the target),
\* a drop (close 90, below the stop) or a spike (high 115, low 90, close
\* 105), over any subset of the weekdays, and weak and strong signals.
BarShapes == {"quiet", "rally", "drop", "spike"}
ShapedBar(shape, d) ==
    CASE shape = "quiet" -> Bar(96 + d, 96 + d, 96 + d, 96 + d)
      [] shape = "rally" -> Bar(96 + d, 112, 96 + d, 112)
      [] shape = "drop" -> Bar(96 + d, 96 + d, 90, 90)
      [] shape = "spike" -> Bar(96 + d, 115, 90, 105)
ShapedSeries ==
    {[d \in DOMAIN f |-> ShapedBar(f[d], d)] :
        f \in UNION {[D -> BarShapes] : D \in SUBSET DataDays}}
ShapedPriceData == {("AAPL" :> a) : a \in ShapedSeries}
ShapedSignalPool ==
    [date : {0, BTEndDay}, symbol : {"AAPL"}, strength : {5, 100},
     stop_loss : Stops, target : Targets]
\* Backtest inputs of SpecTimeLimit: a position entered on day 1 and a last
\* bar on the final day of a window longer than the 30-day limit.
LongSeries ==
    {(0 :> ShapedBar("quiet", 0)) @@ (1 :> ShapedBar(a, 1)) @@ tail :
        a \in {"quiet", "spike"},
        tail \in {<<>>} \cup {(LongEndDay :> ShapedBar(b, 4)) : b \in BarShapes}}
LongPriceData == {("AAPL" :> a) : a \in LongSeries}
LongSignalLists ==
    {<<[date |-> 0, symbol |-> "AAPL", strength |-> 100,
        stop_loss |-> sl, target |-> tg]>> : sl \in Stops, tg \in Targets}
ShapedSignalLists ==
    {<<a>> : a \in ShapedSignalPool}
        \cup {<<a, b>> : a, b \in ShapedSignalPool}
\* Backtest inputs of SpecRerun: bars on the day after the first signal
\* and on the day after the window, each a rally or a drop, and one strong
\* signal on the first or on the last day of the window.
RerunSeries ==
    {a \in ShapedSeries :
        /\ DOMAIN a \subseteq {1, BTEndDay + 1}
        /\ \A d \in DOMAIN a :
               a[d] \in {ShapedBar("rally", d), ShapedBar("drop", d)}}
RerunPriceData == {("AAPL" :> a) : a \in RerunSeries}
RerunSignalLists == {<<a>> : a \in {g \in ShapedSignalPool : g.strength = 100}}
StartDates == {0}
\* Scanner inputs: what the data fetch and the indicator computation give
\* for a symbol.  fetch "fails" when get_stock_data raises; bars is the
\* length of the history; fault tells where the analysis raises, if it
\* does; low is the lowest Low of the last 20 bars (momentum) or 10 bars
\* (mean reversion).  The close is 100.00 in cents (momentum, above its
\* averages) or 90 in dollars (mean reversion, below its 20-day average of
\* 95).
ScanSymbols == Symbols \cup {"MSFT"}
Scanners ==
    {[strategy |-> "momentum",
      min_signal_strength |-> momentum_min_signal_strength],
     [strategy |-> "mean_reversion",
      min_signal_strength |-> mean_reversion_min_signal_strength]}
MomentumIndicators(rsi, volume_ratio, change_pct, hist, recent_high, atr) ==
    [rsi |-> rsi, macd |-> hist, macd_signal |-> 0,
     macd_hist |-> hist, sma_20 |-> 9800, sma_50 |-> 9700,
     ema_12 |-> 9900, volume_ratio |-> volume_ratio,
     price_change_pct |-> change_pct, breakout_level |-> recent_high,
     momentum |-> 100, atr |-> atr, current_price |-> 10000,
     recent_high |-> recent_high]
MeanReversionIndicators(rsi, support_level, resistance_level, confirmed) ==
    [rsi |-> rsi, zscore |-> -30, bollinger_position |-> 0,
     current_price |-> 90, sma_20 |-> 95, slowk |-> 5,
     support_level |-> support_level,
     resistance_level |-> resistance_level,
     volume_confirmation |-> confirmed]
Analysed(fault, indicators, low) ==
    [fetch |-> "ok", bars |-> min_bars, fault |-> fault,
     indicators |-> indicators, low |-> low]
NotAnalysed ==
    {[fetch |-> "fails", bars |-> 0, fault |-> "none", indicators |-> <<>>,
      low |-> 0],
     [fetch |-> "ok", bars |-> min_bars - 1, fault |-> "none",
      indicators |-> <<>>, low |-> 0]}
\* SpecScan: strengths 75, 85, 90 and 100, a symbol outside the RSI range
\* and one of strength 44 (momentum); strengths 54, 65, 67 and 78 and a
\* symbol that is not oversold (mean reversion)
ScanOutcomes(strategy) ==
    IF strategy = "momentum"
    THEN NotAnalysed
         \cup {Analysed("none", MomentumIndicators(r, v, 100, 15, 10000, 100),
                        9000) : r \in {45, 65, 80}, v \in {20, 40}}
         \cup {Analysed(f, MomentumIndicators(65, 20, 20, 0, 10000, 100),
                        9000) : f \in {"none"}}
         \cup {Analysed(f, MomentumIndicators(80, 40, 100, 15, 10000, 100),
                        9000) : f \in {"indicators", "levels"}}
    ELSE NotAnalysed
         \cup {Analysed("none", MeanReversionIndicators(r, sup, 100, FALSE),
                        88) : r \in {10, 25, 35}, sup \in {90, 95}}
         \cup {Analysed(f, MeanReversionIndicators(10, 95, 100, FALSE),
                        88) : f \in {"indicators", "levels"}}
\* SpecScenario: RSI 65, volume ratio 2.0, a rise of 3%, the price above
\* EMA12 > SMA20 > SMA50 and a positive MACD histogram
ScenarioOutcomes ==
    {Analysed("none", MomentumIndicators(65, 20, 30, h, rh, a), l) :
        h \in {1, 15, 100}, rh \in {10000, 10050, 10300}, a \in {100, 300},
        l \in {8500, 9000}}
\* SpecLevels: the levels over lows, supports, resistances and ATRs
LevelOutcomes(strategy) ==
    IF strategy = "momentum"
    THEN {Analysed("none", MomentumIndicators(r, v, c, h, rh, a), l) :
             r \in {65, 80}, v \in {20, 40}, c \in {30, 100}, h \in {1, 15},
             rh \in {10000, 10300}, a \in {100, 300}, l \in {8500, 9000}}
    ELSE {Analysed("none", MeanReversionIndicators(r, sup, res, vc), l) :
             r \in {10, 25}, sup \in {90, 95}, res \in {91, 100},
             vc \in BOOLEAN, l \in {88, 90}}
SymbolLists ==
    {symbols \in UNION {[1..n -> ScanSymbols] : n \in 0..3} :
        \A i, j \in DOMAIN symbols : symbols[i] = symbols[j] => i = j}
\* Initial capitals of SpecFunded: the default, and half the minimum trade
FundedCapitals == {initial_capital, min_trade_size \div 2}
EndDates == {BTEndDay - 1, BTEndDay}

VARIABLES
    positions,            \* RiskManager.positions: symbol -> Position
    cash_available,       \* RiskManager.cash_available
    daily_pnl,            \* RiskManager.daily_pnl
    realized_pnl,         \* RiskManager.realized_pnl
    day_trades,           \* RiskManager.day_trades: timestamps of day trades
    consecutive_losses,   \* RiskManager.consecutive_losses
    trading_suspended,    \* RiskManager.trading_suspended
    suspension_reason,    \* RiskManager.suspension_reason
    equity_curve,         \* RiskManager.equity_curve (the 'equity' entries)
    now,                  \* datetime.now(), in days
    adds,                 \* number of positions opened so far
    ret,                  \* the last call and what it returned
    bt_initial_capital,   \* BacktestEngine.initial_capital
    current_capital,      \* BacktestEngine.current_capital
    bt_positions,         \* BacktestEngine.positions, in insertion order
    trades,               \* BacktestEngine.trades
    bt_equity_curve,      \* BacktestEngine.equity_curve
    commission_per_trade, \* BacktestEngine.commission_per_trade
    signals,              \* run_backtest: the signals inside the window
    price_data,           \* run_backtest: symbol -> (day -> OHLC bar)
    end_date,             \* run_backtest: last day of the window
    current_date,         \* run_backtest: the day the loop is at
    pending,              \* run_backtest: today's signals not yet processed
    pc,                   \* run_backtest: "idle", "running" or "done"
    start_date,           \* run_backtest: first day of the window
    results,              \* the BacktestResults returned so far, with the
                          \* arguments of the call that returned each
    market,               \* data_manager and talib: symbol -> what the data
                          \* fetch and the indicator computation give
    scanner,              \* the scanner object: its strategy and threshold
    market_oversold,      \* scan: the SPY z-score is below -1.5
    scan_symbols,         \* scan: the symbols argument
    scan_index,           \* scan: position of the loop in the symbols
    scan_signals,         \* scan: the signals list
    scan_pc,              \* scan: "idle", "scanning" or "returned"
    all_dates,            \* walk_forward_optimization: len(all_dates)
    in_sample_days,       \* walk_forward_optimization: argument
    out_sample_days,      \* walk_forward_optimization: argument
    current_start,        \* walk_forward_optimization: start of the window
    periods,              \* walk_forward_optimization: the periods defined
                          \* by lines 597-600, one entry per iteration
    walk_forward_results, \* walk_forward_optimization: the list returned
    wf_pc                 \* walk_forward_optimization: "idle", "walking",
                          \* "returned"

vars == <<positions, cash_available, daily_pnl, realized_pnl, day_trades,
          consecutive_losses, trading_suspended, suspension_reason,
          equity_curve, now, adds, ret, current_capital, bt_positions, trades,
          bt_equity_curve, commission_per_trade, signals, price_data,
          end_date, current_date, pending, pc, start_date, results,
          bt_initial_capital, market, scanner, market_oversold, scan_symbols,
          scan_index, scan_signals, scan_pc, all_dates, in_sample_days,
          out_sample_days, current_start, periods, walk_forward_results,
          wf_pc>>

account == <<positions, cash_available, daily_pnl, realized_pnl, day_trades,
             consecutive_losses, trading_suspended, suspension_reason,
             equity_curve>>

engine == <<current_capital, bt_positions, trades>>

backtest == <<engine, bt_equity_curve, commission_per_trade, signals,
              price_data, end_date, current_date, pending, pc, start_date,
              results, bt_initial_capital>>

scanning == <<market, scanner, market_oversold, scan_symbols, scan_index,
              scan_signals, scan_pc>>

optimizing == <<all_dates, in_sample_days, out_sample_days, current_start,
                periods, walk_forward_results, wf_pc>>

research == <<scanning, optimizing>>

(***************************************************************************)
(* Helpers.                                                                *)
(***************************************************************************)
Abs(x) == IF x < 0 THEN -x ELSE x

Min(a, b) == IF a <= b THEN a ELSE b

Max(a, b) == IF a >= b THEN a ELSE b

RECURSIVE SumOver(_, _)
SumOver(S, f) ==
    IF S = {} THEN 0
    ELSE LET s == CHOOSE x \in S : TRUE
         IN  f[s] + SumOver(S \ {s}, f)

NoReason == <<"", 0>>

\* What a call returned: ok/value/shares are the returned tuple, constraints
\* and analysis the returned risk_analysis, raised an exception instead.
Ret(op, ok, value, shares, constraints, raised) ==
    [op |-> op, ok |-> ok, value |-> value, shares |-> shares,
     constraints |-> constraints, analysis |-> <<>>, raised |-> raised]

NoneRet == Ret("None", TRUE, 0, 0, <<>>, FALSE)

(***************************************************************************)
(* Position (dataclass) and Position.update_price.                         *)
(***************************************************************************)
Position(entry_date, entry_price, quantity, position_type, stop_loss, target) ==
    [entry_date |-> entry_date, entry_price |-> entry_price,
     quantity |-> quantity, position_type |-> position_type,
     stop_loss |-> stop_loss, target |-> target,
     current_price |-> entry_price, unrealized_pnl |-> 0]

update_price(p, current_price) ==
    [p EXCEPT !.current_price = current_price,
              !.unrealized_pnl =
                  IF p.position_type = "long"
                  THEN (current_price - p.entry_price) * p.quantity
                  ELSE (p.entry_price - current_price) * p.quantity]

(***************************************************************************)
(* RiskManager.get_current_portfolio_value                                 *)
(***************************************************************************)
PositionsValue(pos) ==
    SumOver(DOMAIN pos, [s \in DOMAIN pos |-> pos[s].quantity * pos[s].current_price])

get_current_portfolio_value == cash_available + PositionsValue(positions)

UnrealizedPnl(pos) ==
    SumOver(DOMAIN pos, [s \in DOMAIN pos |-> pos[s].unrealized_pnl])

(***************************************************************************)
(* RiskManager._calculate_max_drawdown.  The code returns the percentage   *)
(* max over the curve of (peak - equity) / peak * 100; the model keeps the *)
(* comparison "max_drawdown > limit" exact by cross-multiplying.           *)
(***************************************************************************)
RunningPeak(curve, i) ==
    LET RECURSIVE Peak(_)
        Peak(k) == IF k = 1 THEN curve[1].equity
                   ELSE Max(Peak(k - 1), curve[k].equity)
    IN  Peak(i)

MaxDrawdownExceeds(curve, limit) ==
    /\ Len(curve) >= 2
    /\ \E i \in 1..Len(curve) :
          (RunningPeak(curve, i) - curve[i].equity) * 100
              > limit * RunningPeak(curve, i)

(***************************************************************************)
(* RiskManager._check_trading_suspension, as a function of the fields it   *)
(* reads; the result is <<trading_suspended, suspension_reason>>.          *)
(***************************************************************************)
\* mutant: the daily loss limit compared with < instead of <=
CheckSuspensionStrictDailyLoss(dpnl, losses, curve, suspended, reason) ==
    IF dpnl < -max_daily_loss
    THEN <<TRUE, <<"Daily loss limit exceeded", dpnl>>>>
    ELSE IF losses >= max_consecutive_losses
    THEN <<TRUE, <<"Too many consecutive losses", losses>>>>
    ELSE IF MaxDrawdownExceeds(curve, max_drawdown_pct)
    THEN <<TRUE, <<"Portfolio drawdown too high", 0>>>>
    ELSE IF suspended
    THEN <<FALSE, NoReason>>
    ELSE <<suspended, reason>>

_check_trading_suspension(dpnl, losses, curve, suspended, reason) ==
    IF dpnl <= -max_daily_loss
    THEN <<TRUE, <<"Daily loss limit exceeded", dpnl>>>>
    ELSE IF losses >= max_consecutive_losses
    THEN <<TRUE, <<"Too many consecutive losses", losses>>>>
    ELSE IF MaxDrawdownExceeds(curve, max_drawdown_pct)
    THEN <<TRUE, <<"Portfolio drawdown too high", 0>>>>
    ELSE IF suspended
    THEN <<FALSE, NoReason>>
    ELSE <<suspended, reason>>

NoScanner == [strategy |-> "none", min_signal_strength |-> 0]

ScanIdle ==
    /\ market = <<>>
    /\ scanner = NoScanner
    /\ market_oversold = FALSE
    /\ scan_symbols = <<>>
    /\ scan_index = 0
    /\ scan_signals = <<>>
    /\ scan_pc = "idle"

WalkIdle ==
    /\ all_dates = 0
    /\ in_sample_days = 0
    /\ out_sample_days = 0
    /\ current_start = 0
    /\ periods = <<>>
    /\ walk_forward_results = <<>>
    /\ wf_pc = "idle"

SessionInit ==
    /\ positions = <<>>
    /\ cash_available = initial_balance
    /\ daily_pnl = 0
    /\ realized_pnl = 0
    /\ day_trades = <<>>
    /\ consecutive_losses = 0
    /\ trading_suspended = FALSE
    /\ suspension_reason = NoReason
    /\ equity_curve = <<>>
    /\ now = 0
    /\ adds = 0
    /\ ret = Ret("init", TRUE, 0, 0, <<>>, FALSE)
    /\ bt_initial_capital = initial_capital
    /\ current_capital = initial_capital
    /\ bt_positions = <<>>
    /\ trades = <<>>
    /\ bt_equity_curve = <<>>
    /\ commission_per_trade = 0
    /\ signals = <<>>
    /\ price_data = <<>>
    /\ end_date = 0
    /\ current_date = 0
    /\ pending = <<>>
    /\ pc = "idle"
    /\ start_date = 0
    /\ results = <<>>

Init == SessionInit /\ ScanIdle /\ WalkIdle

(***************************************************************************)
(* RiskManager.add_position                                                *)
(***************************************************************************)
add_position(symbol, entry_price, quantity, position_type, stop_loss, target) ==
    /\ IF \/ quantity <= 0 \/ entry_price <= 0
          \/ symbol \in DOMAIN positions
          \/ quantity * entry_price > cash_available
       THEN /\ ret' = Ret("add_position", FALSE, 0, 0, <<>>, FALSE)
            /\ UNCHANGED <<positions, cash_available, adds>>
       ELSE /\ positions' = (symbol :> Position(now, entry_price, quantity,
                                                position_type, stop_loss, target))
                            @@ positions
            /\ cash_available' = cash_available - quantity * entry_price
            /\ adds' = adds + 1
            /\ ret' = Ret("add_position", TRUE, 0, 0, <<>>, FALSE)
    /\ UNCHANGED <<daily_pnl, realized_pnl, day_trades, consecutive_losses,
                   trading_suspended, suspension_reason, equity_curve, now,
                   backtest, research>>

(***************************************************************************)
(* RiskManager.update_positions: market_data gives a price for some of the *)
(* symbols; every held symbol that has one is marked to it.                *)
(***************************************************************************)
update_positions(market_data) ==
    /\ positions' = [s \in DOMAIN positions |->
                        IF s \in DOMAIN market_data
                        THEN update_price(positions[s], market_data[s])
                        ELSE positions[s]]
    /\ ret' = NoneRet
    /\ UNCHANGED <<cash_available, daily_pnl, realized_pnl, day_trades,
                   consecutive_losses, trading_suspended, suspension_reason,
                   equity_curve, now, adds, backtest, research>>

(***************************************************************************)
(* RiskManager.close_position                                              *)
(***************************************************************************)
\* mutant: every position is settled as a short
ClosePnlAsShort(position, exit_price) ==
    (position.entry_price - exit_price) * position.quantity

ClosePnl(position, exit_price) ==
    IF position.position_type = "long"
    THEN (exit_price - position.entry_price) * position.quantity
    ELSE (position.entry_price - exit_price) * position.quantity

\* lines 438-440: no position for the symbol
CloseNothing ==
    /\ ret' = Ret("close_position", FALSE, 0, 0, <<>>, FALSE)
    /\ UNCHANGED <<account, now, adds, backtest, research>>

\* lines 442-485: the position is closed
CloseHeld(symbol, exit_price) ==
    LET position == positions[symbol]
        pnl == ClosePnl(position, exit_price)
        proceeds == position.quantity * exit_price
        losses == IF pnl < 0 THEN consecutive_losses + 1 ELSE 0
        susp == _check_trading_suspension(daily_pnl + pnl, losses,
                   equity_curve, trading_suspended, suspension_reason)
    IN  /\ cash_available' = cash_available + proceeds
        /\ daily_pnl' = daily_pnl + pnl
        /\ realized_pnl' = realized_pnl + pnl
        /\ day_trades' = IF position.entry_date = now
                         THEN Append(day_trades, now)
                         ELSE day_trades
        /\ consecutive_losses' = losses
        /\ trading_suspended' = susp[1]
        /\ suspension_reason' = susp[2]
        /\ positions' = [s \in DOMAIN positions \ {symbol} |-> positions[s]]
        /\ ret' = Ret("close_position", TRUE, pnl, 0, <<>>, FALSE)
        /\ UNCHANGED <<equity_curve, now, adds, backtest, research>>

\* mutant: a suspended account refuses to close
ClosePositionUnlessSuspended(symbol, exit_price) ==
    IF symbol \notin DOMAIN positions \/ trading_suspended
    THEN CloseNothing
    ELSE CloseHeld(symbol, exit_price)

close_position(symbol, exit_price) ==
    IF symbol \notin DOMAIN positions
    THEN CloseNothing
    ELSE CloseHeld(symbol, exit_price)

(***************************************************************************)
(* RiskManager.check_pdt_compliance                                        *)
(***************************************************************************)
\* mutant: a day trade exactly 7 days old is still counted
RecentDayTradesInclusive(log, today) ==
    SelectSeq(log, LAMBDA dt : dt >= today - pdt_window_days)

RecentDayTrades(log, today) ==
    SelectSeq(log, LAMBDA dt : dt > today - pdt_window_days)

check_pdt_compliance ==
    LET kept == RecentDayTrades(day_trades, now)
        remaining_trades == Max(0, pdt_limit - Len(kept))
    IN  /\ day_trades' = kept
        /\ ret' = IF get_current_portfolio_value >= account_minimum
                  THEN Ret("check_pdt_compliance", TRUE, 999, 0, <<>>, FALSE)
                  ELSE Ret("check_pdt_compliance", remaining_trades > 0,
                           remaining_trades, 0, <<>>, FALSE)
        /\ UNCHANGED <<positions, cash_available, daily_pnl, realized_pnl,
                       consecutive_losses, trading_suspended, suspension_reason,
                       equity_curve, now, adds, backtest, research>>

(***************************************************************************)
(* RiskManager.record_daily_equity                                         *)
(***************************************************************************)
record_daily_equity ==
    /\ equity_curve' = Append(equity_curve,
                              [date |-> now, equity |-> get_current_portfolio_value])
    /\ ret' = NoneRet
    /\ UNCHANGED <<positions, cash_available, daily_pnl, realized_pnl, day_trades,
                   consecutive_losses, trading_suspended, suspension_reason,
                   now, adds, backtest, research>>

(***************************************************************************)
(* RiskManager.reset_daily_metrics                                         *)
(***************************************************************************)
reset_daily_metrics ==
    /\ daily_pnl' = 0
    /\ ret' = NoneRet
    /\ UNCHANGED <<positions, cash_available, realized_pnl, day_trades,
                   consecutive_losses, trading_suspended, suspension_reason,
                   equity_curve, now, adds, backtest, research>>

(***************************************************************************)
(* RiskManager.calculate_position_size with account_balance defaulted to   *)
(* the portfolio value.  Percentages are kept exact:                       *)
(*   max_shares_by_risk = int(balance * (risk/100) / risk_per_share)       *)
(*   max_shares_by_size = int(balance * (pct/100) / entry_price)           *)
(*   available_cash     = cash - balance * (reserve/100)                   *)
(*   strength_multiplier = clamp(0.5 + (s - 60)/40, 0.5, 1.5)              *)
(* The result is the returned tuple (size, shares, constraints) or the     *)
(* exception raised by the division by entry_price.                        *)
(***************************************************************************)
_calculate_symbol_concentration_exceeds(symbol, num, den) ==
    /\ symbol \in DOMAIN positions
    /\ get_current_portfolio_value > 0
    /\ positions[symbol].quantity * positions[symbol].current_price * den
          > num * get_current_portfolio_value

\* strength_multiplier = StrengthMultiplierNum / StrengthMultiplierDen
StrengthMultiplierNum(signal_strength) ==
    Max(20, Min(60, 20 + (signal_strength - base_signal)))

StrengthMultiplierDen == max_signal - base_signal

SizingRet(size, shares, constraints, signal_strength, entry_price, stop_loss) ==
    [Ret("calculate_position_size", TRUE, size, shares, constraints, FALSE)
        EXCEPT !.analysis = [signal_strength |-> signal_strength,
                             entry_price |-> entry_price,
                             stop_loss |-> stop_loss,
                             risk_per_share |-> Abs(entry_price - stop_loss)]]

\* lines 253-327: the call when trading is not suspended
SizeWhenTrading(signal_strength, entry_price, stop_loss, symbol) ==
    LET account_balance == get_current_portfolio_value
        risk_per_share == Abs(entry_price - stop_loss)
        Rejected(c) == SizingRet(0, 0, c, signal_strength, entry_price, stop_loss)
    IN
    IF risk_per_share <= 0
    THEN Rejected(<<<<"Invalid stop loss - no risk defined", NoReason>>>>)
    ELSE IF entry_price = 0
    THEN Ret("calculate_position_size", FALSE, 0, 0, <<>>, TRUE)
    ELSE IF signal_strength < base_signal
    THEN Rejected(<<<<"Signal strength too low", NoReason>>>>)
    ELSE IF cash_available * 100 - account_balance * reserve_cash_pct <= 0
    THEN Rejected(<<<<"Insufficient cash available", NoReason>>>>)
    ELSE
    LET max_shares_by_risk ==
            (account_balance * max_position_risk) \div (100 * risk_per_share)
        max_shares_by_size ==
            (account_balance * max_position_pct) \div (100 * entry_price)
        shares_by_cash ==
            (cash_available * 100 - account_balance * reserve_cash_pct)
                \div (100 * entry_price)
        high == symbol # NoSymbol
                /\ _calculate_symbol_concentration_exceeds(symbol, 15, 100)
        concentration_den == IF high THEN 2 ELSE 1
        notes == IF high THEN <<<<"High concentration", NoReason>>>> ELSE <<>>
        capped == Min(max_shares_by_risk, Min(max_shares_by_size, shares_by_cash))
        final_shares == (capped * StrengthMultiplierNum(signal_strength))
                            \div (StrengthMultiplierDen * concentration_den)
    IN  IF final_shares * entry_price < min_position_value
        THEN Rejected(Append(notes, <<"Position too small", NoReason>>))
        ELSE SizingRet(final_shares * entry_price, final_shares, notes,
                       signal_strength, entry_price, stop_loss)

\* mutant: the suspension check is skipped
SizingIgnoringSuspension(signal_strength, entry_price, stop_loss, symbol) ==
    SizeWhenTrading(signal_strength, entry_price, stop_loss, symbol)

SizingResult(signal_strength, entry_price, stop_loss, symbol) ==
    IF trading_suspended
    THEN SizingRet(0, 0, <<<<"Trading suspended", suspension_reason>>>>,
                   signal_strength, entry_price, stop_loss)
    ELSE SizeWhenTrading(signal_strength, entry_price, stop_loss, symbol)

calculate_position_size(signal_strength, entry_price, stop_loss, symbol) ==
    /\ ret' = SizingResult(signal_strength, entry_price, stop_loss, symbol)
    /\ UNCHANGED <<account, now, adds, backtest, research>>

(***************************************************************************)
(* The clock.                                                              *)
(***************************************************************************)
Tick(d) ==
    /\ now + d <= MaxDay
    /\ now' = now + d
    /\ ret' = NoneRet
    /\ UNCHANGED <<account, adds, backtest, research>>

(***************************************************************************)
(* BacktestEngine.  Days are numbered from the first day of the data; day  *)
(* 0 is a Thursday.  A symbol's price data maps the days that have a bar   *)
(* to the bar.  The engine's mutable fields travel as a record             *)
(* [current_capital, positions, trades] through the private methods.       *)
(* trade_log is written and never read, and is left out.                   *)
(***************************************************************************)
weekday(d) == (d + 3) % 7

\* Python's int() of a quotient with a positive divisor: truncation to zero
TruncDiv(a, b) == IF a >= 0 THEN a \div b ELSE -((-a) \div b)

SetMin(S) == CHOOSE x \in S : \A y \in S : x <= y

SetMax(S) == CHOOSE x \in S : \A y \in S : x >= y

Engine ==
    [current_capital |-> current_capital, positions |-> bt_positions,
     trades |-> trades]

HeldSymbols(ps) == {ps[i].symbol : i \in 1..Len(ps)}

PositionOf(ps, symbol) ==
    ps[CHOOSE i \in 1..Len(ps) : ps[i].symbol = symbol]

\* symbol_data[symbol_data.index >= d] and symbol_data[symbol_data.index <= d]
\* mutant: the bar of the signal's own day is eligible for the entry
BarsFromSignalDay(symbol_data, d) == {k \in DOMAIN symbol_data : k >= d - 1}

BarsFrom(symbol_data, d) == {k \in DOMAIN symbol_data : k >= d}

BarsUpTo(symbol_data, d) == {k \in DOMAIN symbol_data : k <= d}

Trade(position, exit_price, exit_date, exit_reason, commission, pnl) ==
    [entry_date |-> position.entry_date, exit_date |-> exit_date,
     symbol |-> position.symbol, direction |-> position.direction,
     entry_price |-> position.entry_price, exit_price |-> exit_price,
     quantity |-> position.quantity, commission |-> commission, pnl |-> pnl,
     \* pnl_pct = pnl / (entry_price * quantity) * 100, as <<num, den>>
     pnl_pct |-> <<pnl * 100, position.entry_price * position.quantity>>,
     duration_days |-> exit_date - position.entry_date,
     max_favorable_excursion |-> position.max_favorable,
     max_adverse_excursion |-> position.max_adverse,
     exit_reason |-> exit_reason]

(***************************************************************************)
(* BacktestEngine._calculate_position_size                                 *)
(***************************************************************************)
_calculate_position_size(capital, signal_strength, entry_price, stop_loss) ==
    LET risk_per_share == Abs(entry_price - stop_loss)
        max_shares_by_risk ==
            TruncDiv(capital * bt_max_position_risk, 100 * risk_per_share)
        max_shares_by_pct ==
            TruncDiv(capital * position_size_pct * signal_strength,
                     100 * 100 * entry_price)
        final_shares == Min(max_shares_by_risk, max_shares_by_pct)
    IN  IF risk_per_share = 0
        THEN min_trade_size
        ELSE Max(final_shares * entry_price, min_trade_size)

(***************************************************************************)
(* BacktestEngine._process_signal                                          *)
(***************************************************************************)
\* lines 165-214: the symbol is not held
EnterPosition(E, signal, date) ==
    LET symbol == signal.symbol
        next_date == date + 1
    IN
    IF symbol \notin DOMAIN price_data THEN E
    ELSE IF BarsFrom(price_data[symbol], next_date) = {} THEN E
    ELSE
    LET symbol_data == price_data[symbol]
        entry_price == symbol_data[SetMin(BarsFrom(symbol_data, next_date))].Open
        position_size == _calculate_position_size(E.current_capital,
                             signal.strength, entry_price, signal.stop_loss)
        quantity == TruncDiv(position_size, entry_price)
        position == [symbol |-> symbol, entry_date |-> next_date,
                     entry_price |-> entry_price, quantity |-> quantity,
                     direction |-> "long", stop_loss |-> signal.stop_loss,
                     target |-> signal.target,
                     max_favorable |-> 0, max_adverse |-> 0]
        cost == quantity * entry_price + commission_per_trade
    IN  IF position_size < min_trade_size \/ quantity = 0 THEN E
        ELSE [E EXCEPT !.current_capital = E.current_capital - cost,
                       !.positions = Append(E.positions, position)]

\* mutant: the check for a position already held is skipped
ProcessSignalIgnoringHeld(E, signal, date) == EnterPosition(E, signal, date)

_process_signal(E, signal, date) ==
    IF signal.symbol \in HeldSymbols(E.positions)
    THEN E
    ELSE EnterPosition(E, signal, date)

(***************************************************************************)
(* BacktestEngine._close_position                                          *)
(***************************************************************************)
TradePnl(position, exit_price) ==
    IF position.direction = "long"
    THEN (exit_price - position.entry_price) * position.quantity
    ELSE (position.entry_price - exit_price) * position.quantity

_close_position(E, symbol, exit_price, exit_date, exit_reason) ==
    IF symbol \notin HeldSymbols(E.positions)
    THEN E
    ELSE
    LET position == PositionOf(E.positions, symbol)
        pnl == TradePnl(position, exit_price) - commission_per_trade
        proceeds == position.quantity * exit_price - commission_per_trade
    IN  [current_capital |-> E.current_capital + proceeds,
         positions |-> SelectSeq(E.positions, LAMBDA p : p.symbol # symbol),
         trades |-> Append(E.trades,
                       Trade(position, exit_price, exit_date, exit_reason,
                             commission_per_trade * 2, pnl))]

\* a loop of _close_position calls over (symbol, price, date, reason) tuples
RECURSIVE CloseEach(_, _)
CloseEach(E, closes) ==
    IF closes = <<>> THEN E
    ELSE LET c == Head(closes)
         IN  CloseEach(_close_position(E, c[1], c[2], c[3], c[4]), Tail(closes))

(***************************************************************************)
(* BacktestEngine._update_positions                                        *)
(***************************************************************************)
HasBarUpTo(symbol, date) ==
    /\ symbol \in DOMAIN price_data
    /\ BarsUpTo(price_data[symbol], date) # {}

LastBar(symbol, date) ==
    price_data[symbol][SetMax(BarsUpTo(price_data[symbol], date))]

\* lines 245-254: MFE and MAE against the bar's high and low
MarkExcursions(position, date) ==
    IF ~HasBarUpTo(position.symbol, date) THEN position
    ELSE
    LET bar == LastBar(position.symbol, date)
        favorable_move == IF position.direction = "long"
                          THEN bar.High - position.entry_price
                          ELSE position.entry_price - bar.Low
        adverse_move == IF position.direction = "long"
                        THEN position.entry_price - bar.Low
                        ELSE bar.High - position.entry_price
    IN  [position EXCEPT
            !.max_favorable = Max(position.max_favorable, favorable_move),
            !.max_adverse = Max(position.max_adverse, adverse_move)]

\* lines 256-273: the exit reason, "" for None
ExitReason(position, date) ==
    IF ~HasBarUpTo(position.symbol, date) THEN ""
    ELSE
    LET current_price == LastBar(position.symbol, date).Close
        days_held == date - position.entry_date
    IN  IF days_held >= max_holding_days THEN "time_limit"
        ELSE IF position.direction = "long"
        THEN IF current_price <= position.stop_loss THEN "stop_loss"
             ELSE IF current_price >= position.target THEN "target"
             ELSE ""
        ELSE IF current_price >= position.stop_loss THEN "stop_loss"
             ELSE IF current_price <= position.target THEN "target"
             ELSE ""

_update_positions(E, date) ==
    LET marked == [i \in 1..Len(E.positions) |->
                      MarkExcursions(E.positions[i], date)]
        exiting == SelectSeq(marked, LAMBDA p : ExitReason(p, date) # "")
        positions_to_close ==
            [i \in 1..Len(exiting) |->
                <<exiting[i].symbol, LastBar(exiting[i].symbol, date).Close,
                  date, ExitReason(exiting[i], date)>>]
    IN  CloseEach([E EXCEPT !.positions = marked], positions_to_close)

(***************************************************************************)
(* BacktestEngine._close_all_positions                                     *)
(***************************************************************************)
_close_all_positions(E, date) ==
    LET closable == SelectSeq(E.positions,
                              LAMBDA p : HasBarUpTo(p.symbol, date))
        closes == [i \in 1..Len(closable) |->
                      <<closable[i].symbol,
                        LastBar(closable[i].symbol, date).Close,
                        date, "backtest_end">>]
    IN  CloseEach(E, closes)

(***************************************************************************)
(* BacktestEngine._record_daily_equity: positions are valued at entry.     *)
(***************************************************************************)
RECURSIVE EntryValue(_)
EntryValue(ps) ==
    IF ps = <<>> THEN 0
    ELSE Head(ps).quantity * Head(ps).entry_price + EntryValue(Tail(ps))

_record_daily_equity(E, curve, date) ==
    Append(curve, [date |-> date,
                   equity |-> E.current_capital + EntryValue(E.positions),
                   cash |-> E.current_capital,
                   positions_value |-> EntryValue(E.positions)])

(***************************************************************************)
(* BacktestEngine._calculate_results: the counts and sums of the result.   *)
(* Quotients are kept as <<numerator, denominator>>; profit_factor with no *)
(* losing trade is float('inf'), kept as <<gross_profit, 0>>.  The float   *)
(* statistics of the equity curve (annual_return, max_drawdown,            *)
(* volatility, the ratios, var_95, monthly_returns) are functions of the   *)
(* fields kept here and of the window, and are left out.                   *)
(***************************************************************************)
RECURSIVE SumPnl(_)
SumPnl(ts) == IF ts = <<>> THEN 0 ELSE Head(ts).pnl + SumPnl(Tail(ts))

\* lines 501-514: the longest run of winning (pnl > 0) or other trades
LongestRun(ts, winning) ==
    SetMax({0} \cup
           {n \in 1..Len(ts) :
               \E i \in 1..(Len(ts) - n + 1) :
                   \A k \in i..(i + n - 1) : (ts[k].pnl > 0) = winning})

_calculate_results(E, curve) ==
    LET ts == E.trades
        winning_pnls == SelectSeq(ts, LAMBDA t : t.pnl > 0)
        losing_pnls == SelectSeq(ts, LAMBDA t : t.pnl < 0)
        total_pnl == SumPnl(ts)
    IN  IF ts = <<>>
        THEN [total_trades |-> 0, winning_trades |-> 0, losing_trades |-> 0,
              win_rate |-> <<0, 1>>, total_return |-> <<0, 1>>,
              profit_factor |-> <<0, 1>>, avg_win |-> <<0, 1>>,
              avg_loss |-> <<0, 1>>, avg_trade |-> <<0, 1>>,
              max_consecutive_wins |-> 0, max_consecutive_losses |-> 0,
              trades |-> <<>>, equity_curve |-> <<>>]
        ELSE [total_trades |-> Len(ts),
              winning_trades |-> Len(winning_pnls),
              losing_trades |-> Len(losing_pnls),
              win_rate |-> <<Len(winning_pnls) * 100, Len(ts)>>,
              total_return |-> <<total_pnl * 100, bt_initial_capital>>,
              profit_factor |-> IF Abs(SumPnl(losing_pnls)) > 0
                                THEN <<SumPnl(winning_pnls),
                                       Abs(SumPnl(losing_pnls))>>
                                ELSE <<SumPnl(winning_pnls), 0>>,
              avg_win |-> IF winning_pnls # <<>>
                          THEN <<SumPnl(winning_pnls), Len(winning_pnls)>>
                          ELSE <<0, 1>>,
              avg_loss |-> IF losing_pnls # <<>>
                           THEN <<SumPnl(losing_pnls), Len(losing_pnls)>>
                           ELSE <<0, 1>>,
              avg_trade |-> <<total_pnl, Len(ts)>>,
              max_consecutive_wins |-> LongestRun(ts, TRUE),
              max_consecutive_losses |-> LongestRun(ts, FALSE),
              trades |-> ts, equity_curve |-> curve]

(***************************************************************************)
(* BacktestEngine.run_backtest, one action per step of its loop.           *)
(***************************************************************************)
\* daily_signals of a day the loop does not skip
DailySignals(sigs, date) ==
    IF weekday(date) >= 5 THEN <<>>
    ELSE SelectSeq(sigs, LAMBDA s : s.date = date)

\* mutant: a run starts with the cash the run before it ended with
ResetKeepingCapital ==
    [current_capital |-> current_capital, positions |-> <<>>,
     trades |-> <<>>, equity_curve |-> <<>>]

\* lines 149-155
_reset_backtest ==
    [current_capital |-> bt_initial_capital, positions |-> <<>>,
     trades |-> <<>>, equity_curve |-> <<>>]

\* lines 116-122 on an engine built with the given commission
run_backtest(sigs, data, start, end, commission) ==
    LET in_window == SelectSeq(sigs,
                        LAMBDA s : s.date >= start /\ s.date <= end)
    IN  /\ pc # "running"
        /\ current_capital' = _reset_backtest.current_capital
        /\ bt_positions' = _reset_backtest.positions
        /\ trades' = _reset_backtest.trades
        /\ bt_equity_curve' = _reset_backtest.equity_curve
        /\ commission_per_trade' = commission
        /\ signals' = in_window
        /\ price_data' = data
        /\ start_date' = start
        /\ end_date' = end
        /\ current_date' = start
        /\ pending' = IF start <= end
                      THEN DailySignals(in_window, start) ELSE <<>>
        /\ pc' = "running"
        /\ UNCHANGED <<results, bt_initial_capital, account, now, adds, ret, research>>

\* lines 134-135: the next signal of the day
ProcessSignal ==
    /\ pc = "running" /\ current_date <= end_date /\ pending # <<>>
    /\ LET E == _process_signal(Engine, Head(pending), current_date)
       IN  /\ current_capital' = E.current_capital
           /\ bt_positions' = E.positions
           /\ trades' = E.trades
    /\ pending' = Tail(pending)
    /\ UNCHANGED <<bt_equity_curve, commission_per_trade, signals, price_data,
                   end_date, current_date, pc, start_date, results,
                   bt_initial_capital, account, now, adds, ret, research>>

\* lines 125-128 and 137-141: the rest of the day, and on to the next day
EndOfDay ==
    /\ pc = "running" /\ current_date <= end_date /\ pending = <<>>
    /\ IF weekday(current_date) >= 5
       THEN UNCHANGED <<engine, bt_equity_curve>>
       ELSE LET E == _update_positions(Engine, current_date)
            IN  /\ current_capital' = E.current_capital
                /\ bt_positions' = E.positions
                /\ trades' = E.trades
                /\ bt_equity_curve' =
                       _record_daily_equity(E, bt_equity_curve, current_date)
    /\ current_date' = current_date + 1
    /\ pending' = IF current_date + 1 <= end_date
                  THEN DailySignals(signals, current_date + 1) ELSE <<>>
    /\ UNCHANGED <<commission_per_trade, signals, price_data, end_date, pc,
                   start_date, results, bt_initial_capital, account, now,
                   adds, ret, research>>

\* lines 143-144: after the loop
FinishBacktest ==
    /\ pc = "running" /\ current_date > end_date
    /\ LET E == _close_all_positions(Engine, end_date)
       IN  /\ current_capital' = E.current_capital
           /\ bt_positions' = E.positions
           /\ trades' = E.trades
           /\ results' = Append(results,
                  [signals |-> signals, price_data |-> price_data,
                   start_date |-> start_date, end_date |-> end_date,
                   commission_per_trade |-> commission_per_trade,
                   result |-> _calculate_results(E, bt_equity_curve)])
    /\ pc' = "done"
    /\ UNCHANGED <<bt_equity_curve, commission_per_trade, signals, price_data,
                   end_date, current_date, pending, start_date,
                   bt_initial_capital, account, now, adds, ret, research>>

(***************************************************************************)
(* MomentumScanner and MeanReversionScanner.  Prices and the ATR are whole *)
(* numbers of a price unit (the inputs take cents for the momentum scanner *)
(* and dollars for the mean-reversion scanner, whose strength has a        *)
(* denominator quadratic in the price); rsi and slowk are in points;       *)
(* volume_ratio, price_change_pct and zscore in tenths; macd, macd_signal  *)
(* and macd_hist in thousandths; bollinger_position in hundredths.  A      *)
(* signal strength is the quotient <<numerator, denominator>> of the float *)
(* the code computes, and so is a risk_reward_ratio; stop_loss and         *)
(* target_price are in 1/200 of the price unit, which keeps the 2% and 5%  *)
(* offsets and the 1.5 risk multiple exact.                                *)
(***************************************************************************)
Fine(price) == 200 * price

\* pct% of a level in 1/200 of the price unit
Pct(pct, level) == (pct * level) \div 100

\* a >= b for quotients with positive denominators
QuotientGE(a, b) ==
    IF a[2] = b[2] THEN a[1] >= b[1] ELSE a[1] * b[2] >= b[1] * a[2]

NoAnalysis == [kind |-> "none"]

RaisedAnalysis == [kind |-> "raise"]

Signal(symbol, signal_strength, entry_price, levels) ==
    [kind |-> "signal", symbol |-> symbol,
     signal_strength |-> signal_strength, entry_price |-> entry_price,
     stop_loss |-> levels[1], target_price |-> levels[2],
     risk_reward_ratio |->
         IF Fine(entry_price) > levels[1]
         THEN <<levels[2] - Fine(entry_price), Fine(entry_price) - levels[1]>>
         ELSE <<0, 1>>]

\* momentum.py lines 268-295
_meets_momentum_criteria(indicators) ==
    /\ rsi_range_low <= indicators.rsi /\ indicators.rsi <= rsi_range_high
    /\ indicators.volume_ratio >= volume_multiplier
    /\ Abs(indicators.price_change_pct) >= price_change_min
    /\ indicators.current_price >= indicators.sma_20
    /\ indicators.macd >= indicators.macd_signal
    /\ indicators.momentum > 0

\* momentum.py lines 297-333, as a quotient over 15 * current_price
Momentum_calculate_signal_strength(indicators) ==
    LET p == indicators.current_price
        D == 15 * p
        rsi_score == Max(0, Min(20 * D, 10 * p * (indicators.rsi - 50)))
        volume_score == Min(25 * D, D * (indicators.volume_ratio - 10))
        momentum_score ==
            Min(20 * D, 3 * p * Abs(indicators.price_change_pct))
        macd_strength == Max(0, Min(15 * D, D * indicators.macd_hist))
        breakout_score ==
            Max(0, 150 * p - 15000 * (indicators.recent_high - p))
        ma_score ==
            (IF p > indicators.ema_12 THEN 3 ELSE 0)
            + (IF indicators.ema_12 > indicators.sma_20 THEN 3 ELSE 0)
            + (IF indicators.sma_20 > indicators.sma_50 THEN 4 ELSE 0)
        strength == rsi_score + volume_score + momentum_score
                    + macd_strength + breakout_score + D * ma_score
    IN  <<Min(100 * D, Max(0, strength)), D>>

\* momentum.py lines 335-360; swing_low is data['Low'].tail(20).min()
Momentum_calculate_levels(indicators, swing_low) ==
    LET entry_price == Fine(indicators.current_price)
        atr_stop == entry_price - 2 * Fine(indicators.atr)
        swing_stop == Pct(98, Fine(swing_low))
        stop_loss == Max(atr_stop, swing_stop)
        risk == entry_price - stop_loss
        min_target == entry_price + 2 * risk
        resistance_target == Pct(105, Fine(indicators.breakout_level))
    IN  <<stop_loss, Max(min_target, resistance_target)>>

\* mean_reversion.py lines 337-360
_meets_mean_reversion_criteria(indicators) ==
    /\ indicators.rsi <= rsi_oversold
    /\ indicators.zscore <= zscore_threshold
    /\ indicators.bollinger_position <= bollinger_position
    /\ indicators.current_price < indicators.sma_20
    /\ indicators.slowk <= stochastic_oversold

\* mean_reversion.py lines 362-400, as a quotient over
\* 12 * sma_20 * current_price; distance_from_mean is
\* (current_price - sma_20) / sma_20 * 100 (line 257)
MeanReversion_calculate_signal_strength(indicators, oversold) ==
    LET p == indicators.current_price
        s == indicators.sma_20
        D == 12 * s * p
        rsi_score == Max(0, 10 * s * p * (30 - indicators.rsi))
        zscore_score ==
            Max(0, Min(20 * D, 6 * s * p * Abs(indicators.zscore)))
        bb_score ==
            Max(0, 9 * s * p * (20 - indicators.bollinger_position))
        distance_score == Max(0, Min(15 * D, 600 * p * Abs(p - s)))
        support_score ==
            Max(0, 120 * s * p
                   - 2400 * s * (p - indicators.support_level))
        stoch_score == Max(0, 6 * s * p * (20 - indicators.slowk))
        strength == rsi_score + zscore_score + bb_score + distance_score
                    + support_score + stoch_score
                    + (IF indicators.volume_confirmation THEN 5 * D ELSE 0)
                    + (IF oversold THEN 5 * D ELSE 0)
    IN  <<Min(100 * D, Max(0, strength)), D>>

\* mean_reversion.py lines 402-427; recent_low is data['Low'].tail(10).min()
MeanReversion_calculate_levels(indicators, recent_low) ==
    LET entry_price == Fine(indicators.current_price)
        support_stop == Pct(98, Fine(indicators.support_level))
        stop_loss == Min(Fine(recent_low), support_stop)
        sma_target == Fine(indicators.sma_20)
        resistance_target == Pct(98, Fine(indicators.resistance_level))
        target_price == Min(sma_target, resistance_target)
        risk == entry_price - stop_loss
        min_target == entry_price + (3 * risk) \div 2
    IN  <<stop_loss,
          IF target_price < min_target THEN min_target ELSE target_price>>

\* momentum.py lines 133-205 and mean_reversion.py lines 139-216: what
\* _analyze_symbol returns or raises for a symbol whose fetch and indicator
\* computation give data
_analyze_symbol(symbol, data) ==
    LET momentum == scanner.strategy = "momentum"
        signal_strength ==
            IF momentum
            THEN Momentum_calculate_signal_strength(data.indicators)
            ELSE MeanReversion_calculate_signal_strength(data.indicators,
                                                         market_oversold)
    IN  IF data.fetch = "fails" \/ data.bars < min_bars
        THEN NoAnalysis
        ELSE IF data.fault = "indicators"
        THEN NoAnalysis
        ELSE IF ~(IF momentum
                  THEN _meets_momentum_criteria(data.indicators)
                  ELSE _meets_mean_reversion_criteria(data.indicators))
        THEN NoAnalysis
        ELSE IF ~QuotientGE(signal_strength,
                            <<scanner.min_signal_strength, 1>>)
        THEN NoAnalysis
        ELSE IF data.fault = "levels"
        THEN RaisedAnalysis
        ELSE Signal(symbol, signal_strength, data.indicators.current_price,
                    IF momentum
                    THEN Momentum_calculate_levels(data.indicators, data.low)
                    ELSE MeanReversion_calculate_levels(data.indicators,
                                                        data.low))

\* mutant: the signals are returned in the order they were found
Unsorted(found) == found

\* signals.sort(key=lambda x: x.signal_strength, reverse=True): stable
RECURSIVE SortByStrength(_)
SortByStrength(found) ==
    IF found = <<>> THEN <<>>
    ELSE LET rest == SortByStrength(Tail(found))
             \* the signals of rest that go before Head(found)
             before == SelectSeq(rest, LAMBDA g :
                           ~QuotientGE(Head(found).signal_strength,
                                       g.signal_strength))
             after == SelectSeq(rest, LAMBDA g :
                           QuotientGE(Head(found).signal_strength,
                                      g.signal_strength))
         IN  before \o <<Head(found)>> \o after

\* lines 104-114 of momentum.py, 109-120 of mean_reversion.py
scan(symbols, oversold) ==
    /\ scan_pc = "idle"
    /\ scan_symbols' = symbols
    /\ scan_index' = 1
    /\ scan_signals' = <<>>
    /\ market_oversold' = oversold
    /\ scan_pc' = "scanning"
    /\ UNCHANGED <<market, scanner, optimizing, account, now, adds, ret,
                   backtest>>

\* lines 116-125 of momentum.py, 122-131 of mean_reversion.py: one symbol
ScanSymbol ==
    /\ scan_pc = "scanning" /\ scan_index <= Len(scan_symbols)
    /\ LET signal == _analyze_symbol(scan_symbols[scan_index],
                                     market[scan_symbols[scan_index]])
       IN  scan_signals' =
               IF /\ signal.kind = "signal"
                  /\ QuotientGE(signal.signal_strength,
                                <<scanner.min_signal_strength, 1>>)
               THEN Append(scan_signals, signal)
               ELSE scan_signals
    /\ scan_index' = scan_index + 1
    /\ UNCHANGED <<market, scanner, market_oversold, scan_symbols, scan_pc,
                   optimizing, account, now, adds, ret, backtest>>

\* lines 127-131 of momentum.py, 133-137 of mean_reversion.py
ReturnSignals ==
    /\ scan_pc = "scanning" /\ scan_index > Len(scan_symbols)
    /\ scan_signals' = SortByStrength(scan_signals)
    /\ scan_pc' = "returned"
    /\ UNCHANGED <<market, scanner, market_oversold, scan_symbols,
                   scan_index, optimizing, account, now, adds, ret,
                   backtest>>

(***************************************************************************)
(* StrategyOptimizer.walk_forward_optimization.  all_dates is the number   *)
(* of bars; a period is given by the indices of its four dates in          *)
(* all_dates.  The in-sample search over the parameter combinations and    *)
(* the out-of-sample run enter the loop only through best_params, taken    *)
(* here as an input of the iteration.                                      *)
(***************************************************************************)
\* mutant: the out-of-sample period starts on the last in-sample bar
PeriodSharingBar(start, in_days, out_days) ==
    [in_sample_start |-> start, in_sample_end |-> start + in_days,
     out_sample_start |-> start + in_days,
     out_sample_end |-> start + in_days + out_days]

\* lines 597-600
Period(start, in_days, out_days) ==
    [in_sample_start |-> start, in_sample_end |-> start + in_days,
     out_sample_start |-> start + in_days + 1,
     out_sample_end |-> start + in_days + out_days]

\* lines 578-593
walk_forward_optimization(dates, in_days, out_days) ==
    /\ wf_pc = "idle"
    /\ all_dates' = dates
    /\ in_sample_days' = in_days
    /\ out_sample_days' = out_days
    /\ current_start' = 0
    /\ periods' = <<>>
    /\ walk_forward_results' = <<>>
    /\ wf_pc' = "walking"
    /\ UNCHANGED <<scanning, account, now, adds, ret, backtest>>

\* lines 595-653: one iteration
WalkForwardStep ==
    /\ wf_pc = "walking"
    /\ current_start + in_sample_days + out_sample_days < all_dates
    /\ \E best_params \in BOOLEAN :
           LET period == Period(current_start, in_sample_days,
                                out_sample_days)
           IN  /\ periods' = Append(periods, period)
               /\ walk_forward_results' =
                      IF best_params
                      THEN Append(walk_forward_results, period)
                      ELSE walk_forward_results
    /\ current_start' = current_start + out_sample_days
    /\ UNCHANGED <<all_dates, in_sample_days, out_sample_days, wf_pc,
                   scanning, account, now, adds, ret, backtest>>

\* lines 655-658: the loop condition fails
WalkForwardReturn ==
    /\ wf_pc = "walking"
    /\ ~(current_start + in_sample_days + out_sample_days < all_dates)
    /\ wf_pc' = "returned"
    /\ UNCHANGED <<all_dates, in_sample_days, out_sample_days, current_start,
                   periods, walk_forward_results, scanning, account, now,
                   adds, ret, backtest>>

(***************************************************************************)
(* The calls a client makes, with the inputs it draws them from.           *)
(***************************************************************************)
Add ==
    \E s \in Symbols, e \in EntryPrices, q \in Quantities, t \in PositionTypes,
       sl \in Stops, tg \in Targets :
        adds < MaxAdds /\ add_position(s, e, q, t, sl, tg)

Update == \E md \in MarketData : update_positions(md)

Close == \E s \in Symbols, x \in ExitPrices : close_position(s, x)

Record == Len(equity_curve) < MaxCurve /\ record_daily_equity

Size ==
    \E g \in Signals, s \in Symbols \cup {NoSymbol} :
        calculate_position_size(g[1], g[2], g[3], s)

\* a backtest is run, once, by a session that has not traded
StartBacktest ==
    /\ ret.op = "init" /\ pc = "idle"
    /\ \E sigs \in SignalLists, data \in PriceData, s \in StartDates,
          e \in EndDates, c \in Commissions :
           run_backtest(sigs, data, s, e, c)

(***************************************************************************)
(* Spec: a session is either one trading day of a RiskManager (fills,      *)
(* marks, closes, equity records, resets; its queries are in SpecSizing,   *)
(* SpecPDT and FairSpec) or one run of a BacktestEngine.                   *)
(***************************************************************************)
Live == pc = "idle"

Next ==
    \/ Live /\ Add
    \/ Live /\ Update
    \/ Live /\ Close
    \/ Live /\ Record
    \/ Live /\ reset_daily_metrics
    \/ StartBacktest
    \/ ProcessSignal
    \/ EndOfDay
    \/ FinishBacktest

Spec == Init /\ [][Next]_vars

(***************************************************************************)
(* SpecBacktest: one run of a BacktestEngine without commission over       *)
(* shaped bars with a different open every day.                            *)
(***************************************************************************)
StartShapedBacktest ==
    /\ pc = "idle"
    /\ \E sigs \in ShapedSignalLists, data \in ShapedPriceData,
          s \in StartDates :
           run_backtest(sigs, data, s, BTEndDay, 0)

NextBacktest ==
    \/ StartShapedBacktest
    \/ ProcessSignal
    \/ EndOfDay
    \/ FinishBacktest

SpecBacktest == Init /\ [][NextBacktest]_vars

(***************************************************************************)
(* SpecTimeLimit: one run of a BacktestEngine over a window longer than    *)
(* the 30-day holding limit.                                               *)
(***************************************************************************)
StartLongBacktest ==
    /\ pc = "idle"
    /\ \E sigs \in LongSignalLists, data \in LongPriceData, s \in StartDates :
           run_backtest(sigs, data, s, LongEndDay, 0)

NextTimeLimit ==
    \/ StartLongBacktest
    \/ ProcessSignal
    \/ EndOfDay
    \/ FinishBacktest

SpecTimeLimit == Init /\ [][NextTimeLimit]_vars

(***************************************************************************)
(* SpecFunded: the same run on an engine built with the default initial    *)
(* capital or with a smaller one.                                          *)
(***************************************************************************)
InitFunded ==
    /\ positions = <<>>
    /\ cash_available = initial_balance
    /\ daily_pnl = 0
    /\ realized_pnl = 0
    /\ day_trades = <<>>
    /\ consecutive_losses = 0
    /\ trading_suspended = FALSE
    /\ suspension_reason = NoReason
    /\ equity_curve = <<>>
    /\ now = 0
    /\ adds = 0
    /\ ret = Ret("init", TRUE, 0, 0, <<>>, FALSE)
    /\ bt_initial_capital \in FundedCapitals
    /\ current_capital = bt_initial_capital
    /\ bt_positions = <<>>
    /\ trades = <<>>
    /\ bt_equity_curve = <<>>
    /\ commission_per_trade = 0
    /\ signals = <<>>
    /\ price_data = <<>>
    /\ end_date = 0
    /\ current_date = 0
    /\ pending = <<>>
    /\ pc = "idle"
    /\ start_date = 0
    /\ results = <<>>
    /\ ScanIdle
    /\ WalkIdle

SpecFunded == InitFunded /\ [][NextTimeLimit]_vars

(***************************************************************************)
(* SpecRerun: up to MaxRuns runs of one BacktestEngine, each started on    *)
(* the state the run before it left behind.                                *)
(***************************************************************************)
StartRerun ==
    /\ pc # "running" /\ Len(results) < MaxRuns
    /\ \E sigs \in RerunSignalLists, data \in RerunPriceData,
          s \in StartDates, c \in Commissions :
           /\ pc = "done" => c = commission_per_trade
           /\ run_backtest(sigs, data, s, BTEndDay, c)

NextRerun ==
    \/ StartRerun
    \/ ProcessSignal
    \/ EndOfDay
    \/ FinishBacktest

SpecRerun == Init /\ [][NextRerun]_vars

(***************************************************************************)
(* SpecSizing: the sizing call over wide signals, in the account states a  *)
(* few fills, marks and closes reach.                                      *)
(***************************************************************************)
AddOne ==
    \E s \in Symbols, e \in EntryPrices, q \in Quantities, sl \in Stops,
       tg \in Targets :
        adds < MaxSizingAdds /\ add_position(s, e, q, "long", sl, tg)

SizeWide ==
    \E g \in WideSignals, s \in Symbols \cup {NoSymbol} :
        calculate_position_size(g[1], g[2], g[3], s)

NextSizing ==
    \/ AddOne
    \/ Update
    \/ Close
    \/ SizeWide

SpecSizing == Init /\ [][NextSizing]_vars

(***************************************************************************)
(* SpecReserve: a client that fills what the sizing call returned, on an   *)
(* account that holds up to three quarters of its value in one position.   *)
(***************************************************************************)
AddLarge ==
    \E s \in Symbols, e \in EntryPrices, q \in LargeQuantities, sl \in Stops,
       tg \in Targets :
        adds < MaxSizingAdds /\ add_position(s, e, q, "long", sl, tg)

Fill ==
    /\ ret.op = "calculate_position_size" /\ ~ret.raised /\ ret.shares > 0
    /\ \E s \in Symbols, tg \in Targets :
           add_position(s, ret.analysis.entry_price, ret.shares, "long",
                        ret.analysis.stop_loss, tg)

NextReserve ==
    \/ AddLarge
    \/ SizeWide
    \/ Fill

SpecReserve == Init /\ [][NextReserve]_vars

(***************************************************************************)
(* SpecPDT: same-day round trips over the rolling day-trade window.        *)
(***************************************************************************)
AddRoundTrip ==
    \E s \in Symbols, e \in EntryPrices, q \in Quantities, sl \in Stops,
       tg \in Targets :
        adds < MaxRoundTrips /\ add_position(s, e, q, "long", sl, tg)

Advance == \E d \in AdvanceDays : Tick(d)

NextPDT ==
    \/ AddRoundTrip
    \/ Close
    \/ check_pdt_compliance
    \/ Advance

SpecPDT == Init /\ [][NextPDT]_vars

(***************************************************************************)
(* SpecAccounts: the same round trips on an account whose configured       *)
(* initial balance is the default or the PDT minimum.                      *)
(***************************************************************************)
InitConfigured ==
    /\ positions = <<>>
    /\ cash_available \in ConfiguredBalances
    /\ daily_pnl = 0
    /\ realized_pnl = 0
    /\ day_trades = <<>>
    /\ consecutive_losses = 0
    /\ trading_suspended = FALSE
    /\ suspension_reason = NoReason
    /\ equity_curve = <<>>
    /\ now = 0
    /\ adds = 0
    /\ ret = Ret("init", TRUE, 0, 0, <<>>, FALSE)
    /\ bt_initial_capital = initial_capital
    /\ current_capital = initial_capital
    /\ bt_positions = <<>>
    /\ trades = <<>>
    /\ bt_equity_curve = <<>>
    /\ commission_per_trade = 0
    /\ signals = <<>>
    /\ price_data = <<>>
    /\ end_date = 0
    /\ current_date = 0
    /\ pending = <<>>
    /\ pc = "idle"
    /\ start_date = 0
    /\ results = <<>>
    /\ ScanIdle
    /\ WalkIdle

SpecAccounts == InitConfigured /\ [][NextPDT]_vars

(***************************************************************************)
(* FairSpec: a client that opens positions only while trading is not       *)
(* suspended (it follows the sizing verdict) and keeps calling every       *)
(* other operation.                                                        *)
(***************************************************************************)
EntryWhenTrading == ~trading_suspended /\ Add

NextObedient ==
    \/ EntryWhenTrading
    \/ Update
    \/ Close
    \/ check_pdt_compliance
    \/ Record
    \/ reset_daily_metrics
    \/ Size

FairSpec ==
    /\ Init /\ [][NextObedient]_vars
    /\ WF_vars(Close) /\ WF_vars(Update) /\ WF_vars(Record)
    /\ WF_vars(reset_daily_metrics) /\ WF_vars(check_pdt_compliance)
    /\ WF_vars(Size)

(***************************************************************************)
(* SpecScan: one scan of a scanner of either strategy over up to three     *)
(* symbols of a market drawn at the start.                                 *)
(***************************************************************************)
StartScan ==
    \E symbols \in SymbolLists, oversold \in BOOLEAN :
        /\ \A i \in DOMAIN symbols : symbols[i] \in DOMAIN market
        /\ oversold => scanner.strategy = "mean_reversion"
        /\ scan(symbols, oversold)

NextScan ==
    \/ StartScan
    \/ ScanSymbol
    \/ ReturnSignals

InitScan ==
    /\ SessionInit /\ WalkIdle
    /\ scanner \in Scanners
    /\ market \in [ScanSymbols -> ScanOutcomes(scanner.strategy)]
    /\ market_oversold = FALSE
    /\ scan_symbols = <<>>
    /\ scan_index = 0
    /\ scan_signals = <<>>
    /\ scan_pc = "idle"

SpecScan == InitScan /\ [][NextScan]_vars

(***************************************************************************)
(* SpecScenario: a momentum scan of one symbol in the scenario.            *)
(***************************************************************************)
InitScenario ==
    /\ SessionInit /\ WalkIdle
    /\ scanner \in {g \in Scanners : g.strategy = "momentum"}
    /\ market \in [{"AAPL"} -> ScenarioOutcomes]
    /\ market_oversold = FALSE
    /\ scan_symbols = <<>>
    /\ scan_index = 0
    /\ scan_signals = <<>>
    /\ scan_pc = "idle"

SpecScenario == InitScenario /\ [][NextScan]_vars

(***************************************************************************)
(* SpecLevels: a scan of one symbol that meets the gate of the scanner.    *)
(***************************************************************************)
InitLevels ==
    /\ SessionInit /\ WalkIdle
    /\ scanner \in Scanners
    /\ market \in [{"AAPL"} -> LevelOutcomes(scanner.strategy)]
    /\ market_oversold = FALSE
    /\ scan_symbols = <<>>
    /\ scan_index = 0
    /\ scan_signals = <<>>
    /\ scan_pc = "idle"

SpecLevels == InitLevels /\ [][NextScan]_vars

(***************************************************************************)
(* FairSpecWalk: one walk-forward optimization over up to MaxDates bars   *)
(* with windows of up to MaxWindow days; the call, once made, runs its     *)
(* loop to the end.                                                        *)
(***************************************************************************)
StartWalk ==
    \E dates \in 0..MaxDates, in_days \in 1..MaxWindow,
       out_days \in 1..MaxWindow :
        walk_forward_optimization(dates, in_days, out_days)

NextWalk ==
    \/ StartWalk
    \/ WalkForwardStep
    \/ WalkForwardReturn

FairSpecWalk ==
    /\ Init /\ [][NextWalk]_vars
    /\ WF_vars(WalkForwardStep) /\ WF_vars(WalkForwardReturn)

(***************************************************************************)
(* Properties.                                                             *)
(***************************************************************************)
Sized == ret.op = "calculate_position_size" /\ ~ret.raised

Closed == ret.op = "close_position" /\ ret.ok

\* C1: a sizing call that returns shares # 0 for a strength in [60,100]
\* has shares * entry_price <= max_position_pct% of the account value.
C1_NotionalWithinMaxPositionPct ==
    (/\ Sized /\ ret.shares # 0
     /\ ret.analysis.signal_strength \in base_signal..max_signal)
    => ret.shares * ret.analysis.entry_price * 100
           <= max_position_pct * get_current_portfolio_value

\* C2: a sizing call that returns shares # 0 for a strength in [60,100]
\* has shares * risk_per_share <= max_position_risk% of the account value.
C2_RiskWithinMaxPositionRisk ==
    (/\ Sized /\ ret.shares # 0
     /\ ret.analysis.signal_strength \in base_signal..max_signal)
    => ret.shares * ret.analysis.risk_per_share * 100
           <= max_position_risk * get_current_portfolio_value

\* C3: while trading is suspended every sizing call returns size 0 and
\* shares 0 with the one constraint "Trading suspended: <reason>", and
\* changes nothing of the account.
C3_SuspendedSizingRejected ==
    [][(trading_suspended /\ ret'.op = "calculate_position_size")
        => /\ ~ret'.raised /\ ret'.value = 0 /\ ret'.shares = 0
           /\ suspension_reason # NoReason
           /\ ret'.constraints = <<<<"Trading suspended", suspension_reason>>>>
           /\ UNCHANGED account]_vars

C3_Witness ==
    /\ trading_suspended /\ Sized
    /\ ret.analysis.signal_strength = max_signal
    /\ ret.analysis.risk_per_share > 0
    /\ ret.shares = 0

\* C4: no position is opened (add_position returning True) while trading
\* is suspended.
C4_NoEntryWhileSuspended ==
    [][trading_suspended => ~(ret'.op = "add_position" /\ ret'.ok)]_vars

\* Peak-to-trough drawdown of the recorded curve above pct percent.
DrawdownOver(curve, pct) ==
    \E i \in 1..Len(curve), j \in 1..Len(curve) :
        /\ i <= j
        /\ (curve[i].equity - curve[j].equity) * 100 > pct * curve[i].equity

TodaysPnl == daily_pnl + UnrealizedPnl(positions)

AnySuspensionCondition ==
    \/ daily_pnl <= -max_daily_loss
    \/ consecutive_losses >= max_consecutive_losses
    \/ DrawdownOver(equity_curve, max_drawdown_pct)

\* C6: a suspended account with no open position whose suspension
\* conditions have all cleared eventually becomes unsuspended.
C6_SuspensionEventuallyLifted ==
    (trading_suspended /\ DOMAIN positions = {} /\ ~AnySuspensionCondition)
        ~> ~trading_suspended

\* C7: at most one open position per symbol: add_position for a symbol that
\* is already held returns False and leaves positions and cash_available
\* unchanged, and the backtest never holds a symbol twice and ignores a
\* signal for a symbol it already holds.
C7_OnePositionPerSymbol ==
    [][/\ \A s \in Symbols, e \in EntryPrices, q \in Quantities,
             t \in PositionTypes, sl \in Stops, tg \in Targets :
             (s \in DOMAIN positions /\ add_position(s, e, q, t, sl, tg))
                 => /\ ~ret'.ok
                    /\ UNCHANGED <<positions, cash_available>>
       /\ \A i, j \in 1..Len(bt_positions') :
             bt_positions'[i].symbol = bt_positions'[j].symbol => i = j
       /\ (ProcessSignal /\ Head(pending).symbol \in HeldSymbols(bt_positions))
             => UNCHANGED engine]_vars

\* the backtest has processed a signal of today for a symbol it held
C7_Witness ==
    /\ pc = "running" /\ pending = <<>>
    /\ \E i \in 1..Len(signals), k \in 1..Len(bt_positions) :
          /\ signals[i].date = current_date
          /\ bt_positions[k].symbol = signals[i].symbol
          /\ bt_positions[k].entry_date <= current_date

\* C8: close_position of a held symbol returns success with the realized
\* P&L and removes the symbol; of a symbol not held it returns (False, 0)
\* and changes nothing of the account.
C8_CloseAlwaysSucceeds ==
    [][\A s \in Symbols, x \in ExitPrices :
          close_position(s, x) =>
              IF s \in DOMAIN positions
              THEN /\ ret'.ok /\ ret'.value = realized_pnl' - realized_pnl
                   /\ s \notin DOMAIN positions'
                   /\ DOMAIN positions' = DOMAIN positions \ {s}
              ELSE /\ ~ret'.ok /\ ret'.value = 0
                   /\ UNCHANGED account]_vars

\* a position closed while trading was already suspended for the daily loss
C8_Witness == Closed /\ daily_pnl - ret.value <= -max_daily_loss

C10_NoFourthDayTrade ==
    get_current_portfolio_value < account_minimum
        => Len(RecentDayTrades(day_trades, now)) <= pdt_limit

\* C11: check_pdt_compliance allows day trading (999 remaining) for an
\* account worth >= 25,000 whatever the log holds; for any other account it
\* reports remaining = max(0, 3 - number of logged day trades less than 7
\* days old) and allows day trading iff remaining > 0.
C11_PdtReport ==
    [][check_pdt_compliance =>
          LET recent == Cardinality({i \in 1..Len(day_trades) :
                                        now - day_trades[i] < 7})
          IN  IF get_current_portfolio_value >= 25000
              THEN ret'.ok /\ ret'.value = 999
              ELSE /\ ret'.value = IF recent >= 3 THEN 0 ELSE 3 - recent
                   /\ ret'.ok <=> ret'.value > 0]_vars

\* an exempt account is allowed a day trade with three day trades logged
C11_Witness ==
    /\ ret.op = "check_pdt_compliance" /\ ret.ok
    /\ get_current_portfolio_value >= account_minimum
    /\ Len(day_trades) >= pdt_limit

\* C12: calculate_position_size never raises, and every rejection (zero
\* shares) has size 0 and a non-empty constraint list; the call changes
\* nothing of the account.
C12_SizingNeverThrows ==
    [][ret'.op = "calculate_position_size"
          => /\ ~ret'.raised
             /\ ret'.shares = 0 =>
                    (ret'.value = 0 /\ ret'.constraints # <<>>)
             /\ UNCHANGED account]_vars

\* C13: a sizing call for a long signal whose stop_loss >= entry_price
\* (zero or negative price risk) returns zero shares, whatever the
\* strength.
C13_NonPositiveRiskRejected ==
    (Sized /\ ret.analysis.stop_loss >= ret.analysis.entry_price)
        => ret.shares = 0

\* the notional min(shares by risk, shares by percent) * entry_price of
\* a backtest signal with a positive risk per share
ComputedNotional(capital, strength, entry_price, stop_loss) ==
    LET by_risk == (capital * 2) \div (100 * Abs(entry_price - stop_loss))
        by_pct == (capital * 10 * strength) \div (100 * 100 * entry_price)
    IN  entry_price * (IF by_risk <= by_pct THEN by_risk ELSE by_pct)

\* C14: a position whose computed notional is below the minimum trade size
\* ($100) is rejected, never rounded up: a sizing call of the Risk Manager
\* that returns shares has a notional >= 100, and a position the backtest
\* opens has a computed notional >= 100.
C14_SmallPositionRejected ==
    [][/\ (ret'.op = "calculate_position_size" /\ ~ret'.raised
            /\ ret'.shares # 0)
             => ret'.shares * ret'.analysis.entry_price >= 100
       /\ (ProcessSignal /\ Len(bt_positions') > Len(bt_positions))
             => LET p == bt_positions'[Len(bt_positions')]
                    g == Head(pending)
                IN  g.stop_loss # p.entry_price =>
                       ComputedNotional(current_capital, g.strength,
                           p.entry_price, g.stop_loss) >= 100]_vars

\* the open of the first bar after the day of a signal
HasNextBar(g) ==
    /\ g.symbol \in DOMAIN price_data
    /\ \E k \in DOMAIN price_data[g.symbol] : k > g.date

NextOpen(g) ==
    LET bars == price_data[g.symbol]
        first == CHOOSE k \in DOMAIN bars :
                    /\ k > g.date
                    /\ \A j \in DOMAIN bars : j > g.date => k <= j
    IN  bars[first].Open

\* C15: for the same strength, entry price and stop loss, on accounts
\* holding the same cash and no open position, the backtest opens exactly
\* the number of shares RiskManager.calculate_position_size returns (none
\* when it rejects).
C15_SameSizing ==
    [][(/\ ProcessSignal /\ HasNextBar(Head(pending))
        /\ bt_positions = <<>> /\ positions = <<>>
        /\ current_capital = cash_available)
          => LET g == Head(pending)
                 live == SizingResult(g.strength, NextOpen(g), g.stop_loss,
                                      NoSymbol)
                 opened == IF bt_positions' = <<>> THEN 0
                           ELSE bt_positions'[1].quantity
             IN  ~live.raised /\ live.shares = opened]_vars

\* C16: a position the backtest opens for a signal dated D is entered at
\* the open of the first bar after D, and at no price of a bar of day D or
\* earlier.
C16_EntryAtNextOpen ==
    [][(ProcessSignal /\ Len(bt_positions') > Len(bt_positions))
          => LET p == bt_positions'[Len(bt_positions')]
                 g == Head(pending)
                 bars == price_data[g.symbol]
             IN  /\ g.date = current_date
                 /\ HasNextBar(g) /\ p.entry_price = NextOpen(g)
                 /\ \A j \in DOMAIN bars :
                       j <= g.date =>
                          p.entry_price \notin {bars[j].Open, bars[j].High,
                                                bars[j].Low, bars[j].Close}]_vars

\* a day-0 signal entered at the open of day 4, the first bar after a gap
C16_Witness ==
    /\ pc = "running" /\ current_date = 0
    /\ DOMAIN price_data["AAPL"] \cap {0, 1, 4} = {0, 4}
    /\ \E i \in 1..Len(bt_positions) :
          bt_positions[i].entry_price = price_data["AAPL"][4].Open

\* the trades a step appends
NewTrades == {trades'[i] : i \in (Len(trades) + 1)..Len(trades')}

\* C17: the backtest's exit checks run in the order stop-loss, target,
\* 30-day limit and the first match wins: a long position whose stop-loss
\* condition (respectively target condition) holds on a day exits that day
\* with exit_reason stop_loss (target), however long it has been held.
C17_ExitPrecedence ==
    [][(EndOfDay /\ weekday(current_date) < 5)
          => \A i \in 1..Len(bt_positions) :
                LET p == bt_positions[i]
                IN  HasBarUpTo(p.symbol, current_date) =>
                      LET c == LastBar(p.symbol, current_date).Close
                          reason == IF c <= p.stop_loss THEN "stop_loss"
                                    ELSE IF c >= p.target THEN "target"
                                    ELSE ""
                      IN  reason # "" =>
                            \E t \in NewTrades :
                                /\ t.symbol = p.symbol
                                /\ t.exit_reason = reason]_vars

\* C18: a long position held on a day whose bar has a low <= its stop
\* exits that day with exit_reason stop_loss at the stop level, and
\* otherwise, when the high is >= its target, with exit_reason target at
\* the target level, wherever the bar closes.
C18_IntradayExitAtTrigger ==
    [][(EndOfDay /\ weekday(current_date) < 5)
          => \A i \in 1..Len(bt_positions) :
                LET p == bt_positions[i]
                IN  (/\ p.entry_date <= current_date
                     /\ current_date \in DOMAIN price_data[p.symbol])
                    => LET bar == price_data[p.symbol][current_date]
                       IN  /\ bar.Low <= p.stop_loss =>
                                 \E t \in NewTrades :
                                     /\ t.symbol = p.symbol
                                     /\ t.exit_reason = "stop_loss"
                                     /\ t.exit_price = p.stop_loss
                           /\ (bar.Low > p.stop_loss /\ bar.High >= p.target) =>
                                 \E t \in NewTrades :
                                     /\ t.symbol = p.symbol
                                     /\ t.exit_reason = "target"
                                     /\ t.exit_price = p.target]_vars

\* C19: when run_backtest returns no position is open: every position
\* still open after the last day has been closed and recorded as a trade
\* with exit_reason backtest_end.
C19_NoOpenPositionAtReturn ==
    [][FinishBacktest
          => /\ bt_positions' = <<>>
             /\ \A i \in 1..Len(bt_positions) :
                   \E t \in NewTrades :
                       /\ t.symbol = bt_positions[i].symbol
                       /\ t.exit_reason = "backtest_end"]_vars

\* the value of open positions at the latest close up to a day
RECURSIVE MarkToMarket(_, _)
MarkToMarket(ps, date) ==
    IF ps = <<>> THEN 0
    ELSE Head(ps).quantity * LastBar(Head(ps).symbol, date).Close
             + MarkToMarket(Tail(ps), date)

\* C20: the equity-curve point the backtest appends for a day equals cash
\* plus the value at that day's close of the positions open at the end of
\* the day (each entered by then, with a bar that day).
C20_EquityMarkedToMarket ==
    [][(/\ EndOfDay /\ weekday(current_date) < 5
        /\ \A i \in 1..Len(bt_positions') :
              /\ bt_positions'[i].entry_date <= current_date
              /\ current_date \in DOMAIN price_data[bt_positions'[i].symbol])
          => LET point == bt_equity_curve'[Len(bt_equity_curve')]
             IN  /\ Len(bt_equity_curve') = Len(bt_equity_curve) + 1
                 /\ point.date = current_date
                 /\ point.equity =
                        current_capital'
                            + MarkToMarket(bt_positions', current_date)]_vars

\* C21: two runs of run_backtest with the same signals in the window, the
\* same price data, window and commission return the same trades, equity
\* curve and aggregates, whatever the engine ran in between (a first run
\* starts from a freshly built engine).
C21_RerunSameResult ==
    \A i \in 1..Len(results), j \in 1..Len(results) :
        (/\ results[i].signals = results[j].signals
         /\ results[i].price_data = results[j].price_data
         /\ results[i].start_date = results[j].start_date
         /\ results[i].end_date = results[j].end_date
         /\ results[i].commission_per_trade = results[j].commission_per_trade)
            => results[i].result = results[j].result

\* a run repeated after a different run that left cash off the initial
\* capital, trades and equity points behind
C21_Witness ==
    /\ Len(results) = 3
    /\ results[1].signals = results[3].signals
    /\ results[1].price_data = results[3].price_data
    /\ results[1].price_data # results[2].price_data
    /\ results[2].result.total_trades > 0
    /\ results[2].result.total_return[1] # 0
    /\ results[3].result.total_return[1] # 0

\* C26: every trade that was not closed at the end of the backtest lasted at
\* most max_holding_days days.
C26_TimeLimitHard ==
    \A i \in 1..Len(trades) :
        trades[i].exit_reason # "backtest_end"
            => trades[i].duration_days <= max_holding_days

\* C27: the cash plus the cost (quantity x entry price) of the open
\* positions equals the initial balance plus the realized P&L.
C27_CashConserved ==
    cash_available
        + SumOver(DOMAIN positions,
                  [s \in DOMAIN positions |->
                      positions[s].quantity * positions[s].entry_price])
        = initial_balance + realized_pnl

\* C28: no recorded trade ends before the day its position was entered.
C28_ExitNotBeforeEntry ==
    \A i \in 1..Len(trades) : trades[i].exit_date >= trades[i].entry_date

\* C29: the cash of a backtest is never negative.
C29_CapitalNeverNegative == current_capital >= 0

\* C30: after a fill of the shares the sizing call returned for a strength
\* in [60,100], the cash is at least reserve_cash_pct% of the account value
\* before the fill.
C30_ReserveKept ==
    [][(/\ Fill /\ ret'.ok
        /\ ret.analysis.signal_strength \in base_signal..max_signal)
          => cash_available' * 100
                 >= reserve_cash_pct * get_current_portfolio_value]_vars

\* the analysis of a scanned symbol succeeds and its strength meets the
\* threshold of the scanner
Emits(symbol) ==
    LET data == market[symbol]
        strength ==
            IF scanner.strategy = "momentum"
            THEN Momentum_calculate_signal_strength(data.indicators)
            ELSE MeanReversion_calculate_signal_strength(data.indicators,
                                                         market_oversold)
    IN  /\ data.fetch = "ok" /\ data.bars >= min_bars /\ data.fault = "none"
        /\ IF scanner.strategy = "momentum"
           THEN _meets_momentum_criteria(data.indicators)
           ELSE _meets_mean_reversion_criteria(data.indicators)
        /\ QuotientGE(strength, <<scanner.min_signal_strength, 1>>)

\* C22: a scan returns, for any symbols and any outcomes of their
\* analyses, one signal for each symbol whose analysis succeeds with a
\* strength at or above the threshold, and no other, in descending order
\* of strength.
C22_ScanReturnsStrongSignalsSorted ==
    scan_pc = "returned"
        => /\ Len(scan_signals)
                = Cardinality({i \in DOMAIN scan_symbols :
                                  Emits(scan_symbols[i])})
           /\ \A i \in DOMAIN scan_symbols :
                  Emits(scan_symbols[i])
                      <=> \E k \in DOMAIN scan_signals :
                             scan_signals[k].symbol = scan_symbols[i]
           /\ \A k \in DOMAIN scan_signals :
                  scan_signals[k].symbol \in
                      {scan_symbols[i] : i \in DOMAIN scan_symbols}
           /\ \A j, k \in DOMAIN scan_signals :
                  j < k => QuotientGE(scan_signals[j].signal_strength,
                                      scan_signals[k].signal_strength)

\* a scan of three symbols returned two signals with the later symbol
\* first, and skipped a symbol whose analysis raised after the gate
C22_Witness ==
    /\ scan_pc = "returned"
    /\ Len(scan_symbols) = 3 /\ Len(scan_signals) = 2
    /\ scan_signals[1].symbol = scan_symbols[3]
    /\ scan_signals[2].symbol = scan_symbols[1]
    /\ ~QuotientGE(scan_signals[2].signal_strength,
                   scan_signals[1].signal_strength)
    /\ market[scan_symbols[2]].fault = "levels"

\* C23: a momentum scan of a symbol with RSI 65, volume ratio 2.0, a rise
\* of 3%, the price above EMA12 > SMA20 > SMA50 and a positive MACD
\* histogram returns a signal for it whose strength is at least 80 and
\* whose risk/reward ratio is at least 2.
C23_ScenarioSignal ==
    (/\ scan_pc = "returned" /\ scanner.strategy = "momentum"
     /\ scan_symbols = <<"AAPL">>
     /\ market["AAPL"] \in ScenarioOutcomes)
        => \E k \in DOMAIN scan_signals :
              /\ scan_signals[k].symbol = "AAPL"
              /\ QuotientGE(scan_signals[k].signal_strength, <<80, 1>>)
              /\ QuotientGE(scan_signals[k].risk_reward_ratio, <<2, 1>>)

\* C24: every signal a scan holds has stop_loss < entry_price <
\* target_price and a risk/reward ratio above 0.
C24_SignalLevelsOrdered ==
    \A k \in DOMAIN scan_signals :
        /\ scan_signals[k].stop_loss < Fine(scan_signals[k].entry_price)
        /\ Fine(scan_signals[k].entry_price) < scan_signals[k].target_price
        /\ scan_signals[k].risk_reward_ratio[1] > 0

\* the windows of iteration k (k = 0, 1, ...) of the walk: in-sample bars
\* from index k * out_sample_days, out-of-sample bars that start after the
\* last in-sample bar and number out_sample_days, all inside the data
Scheduled(k) ==
    LET period == periods[k + 1]
    IN  /\ period.in_sample_start = k * out_sample_days
        /\ period.in_sample_start <= period.in_sample_end
        /\ period.out_sample_start > period.in_sample_end
        /\ period.out_sample_end - period.out_sample_start + 1
               = out_sample_days
        /\ \A i \in {period.in_sample_start, period.in_sample_end,
                     period.out_sample_start, period.out_sample_end} :
               i \in 0..(all_dates - 1)

WalkSchedule ==
    /\ \A k \in 0..(Len(periods) - 1) : Scheduled(k)
    /\ current_start = Len(periods) * out_sample_days
    /\ \A r \in DOMAIN walk_forward_results :
           \E k \in DOMAIN periods : walk_forward_results[r] = periods[k]
    /\ wf_pc = "returned"
           => current_start + in_sample_days + out_sample_days >= all_dates

\* C25: iteration k of a walk-forward optimization uses the in-sample bars
\* from index k * out_sample_days and an out-of-sample window that starts
\* after the in-sample window ends and spans out_sample_days bars, both
\* inside the data; the start advances by out_sample_days per iteration,
\* and a walk with windows of one day or more returns.
C25_WalkForwardSchedule ==
    /\ []WalkSchedule
    /\ (wf_pc = "walking" /\ in_sample_days >= 1 /\ out_sample_days >= 1)
           ~> (wf_pc = "returned")

\* a walk of three iterations over windows of two days has returned, one
\* iteration without best parameters
C25_Witness ==
    /\ wf_pc = "returned"
    /\ Len(periods) = 3 /\ Len(walk_forward_results) = 2
    /\ in_sample_days = 2 /\ out_sample_days = 2

====
